---- MODULE Spec2Model ----
(***************************************************************************)
(* Model of wikipedia_Dump.py: a pool of harvest workers and one monitor   *)
(* that share seen_titles, total_articles_written and                      *)
(* consecutive_empty_batches under one lock, a seen-titles file and a      *)
(* corpus file.                                                            *)
(*                                                                         *)
(* Text is modelled as a sequence of one-character strings.  Devanagari    *)
(* code points are written by their transliterated names ("ma" is U+092E). *)
(*                                                                         *)
(* A block run under the lock is one step, except the block of lines       *)
(* 107-128, which is two (the claim of the new titles, then their append   *)
(* to the seen file) with the lock held in between.  A local variable that *)
(* is dead (reassigned before it is read again) is reset where it dies.    *)
(* The monitor's locals feed only its report line and are left out.        *)
(***************************************************************************)
EXTENDS Naturals, Sequences, FiniteSets

\* ---------------------------------------------------------------- bounds
\* Configuration of the run, scaled down (the source sets 800000000000, 20
\* and 100).
NUM_ARTICLES == 2
BATCH_SIZE == 2
CONSECUTIVE_EMPTY_THRESHOLD == 2
\* The pool is modelled with two worker threads (the source starts 8).
NUM_WORKER_THREADS == 2
\* Longest seen-titles file read by the loader specification.
MaxFileLines == 3

\* ------------------------------------------------------- program constants
MAX_RETRIES == 4
MinWords == 50

Workers == 1..NUM_WORKER_THREADS

\* Longest text handed to clean_text by the cleaner specification.
MaxTextLen == 4

\* ------------------------------------------------------------------ text
SP == " "
TAB == "\t"

\* Characters matched by \s and removed by strip() (two of them).
Whitespace == {SP, TAB}

\* Code points of the range U+0900-U+097F used in this module; the danda and
\* the digits that the pattern of line 68 also lists lie in that range.
Devanagari ==
    {"ka", "ga", "va", "pa", "dda", "ya", "ma", "da", "ta", "sa", "ca", "ra",
     "sign_aa", "sign_i", "sign_ii", "virama", "danda",
     "dev0", "dev1", "dev2", "dev3", "dev4", "dev5", "dev6", "dev7", "dev8", "dev9"}

\* invalid_patterns, line 56
invalid_patterns ==
    << <<"(">>,
       <<")">>,
       <<"va", "sign_i", "ka", "sign_i", "pa", "sign_ii", "dda", "sign_i", "ya", "sign_aa">>,
       <<"d", "i", "s", "a", "m", "b", "i", "g", "u", "a", "t", "i", "o", "n">>,
       <<"ma", "da", "ta">>,
       <<"sa", "sign_aa", "ca", "sign_aa">>,
       <<"ca", "ra", "virama", "ca", "sign_aa">> >>

\* patt in t (substring test on strings)
PattIn(patt, t) ==
    \E i \in 1..(Len(t) + 1) :
        /\ i + Len(patt) - 1 <= Len(t)
        /\ \A j \in 1..Len(patt) : t[i + j - 1] = patt[j]

\* any(patt in t for patt in invalid_patterns)
IsInvalid(t) == \E k \in 1..Len(invalid_patterns) : PattIn(invalid_patterns[k], t)

RECURSIVE LStrip(_)
LStrip(s) == IF s # <<>> /\ Head(s) \in Whitespace THEN LStrip(Tail(s)) ELSE s

RECURSIVE RStrip(_)
RStrip(s) ==
    IF s # <<>> /\ s[Len(s)] \in Whitespace THEN RStrip(SubSeq(s, 1, Len(s) - 1)) ELSE s

\* line.strip(), text.strip()
Strip(line) == RStrip(LStrip(line))

\* ------------------------------------------------------------ clean_text
\* c is matched by [^\u0900-\u097F\s|,!?0-9] (danda and Devanagari digits
\* written in ASCII here), line 68.
Disallowed(c) ==
    /\ c \notin Devanagari
    /\ c \notin Whitespace
    /\ c \notin {"danda", ",", "!", "?"}
    /\ c \notin {"dev0", "dev1", "dev2", "dev3", "dev4", "dev5", "dev6", "dev7", "dev8", "dev9"}

\* text without its longest prefix of disallowed characters
RECURSIVE SkipDisallowed(_)
SkipDisallowed(text) ==
    IF text # <<>> /\ Disallowed(Head(text)) THEN SkipDisallowed(Tail(text)) ELSE text

\* The substitution with '' as its replacement.
RECURSIVE SubDisallowedDeleted(_)
SubDisallowedDeleted(text) ==
    IF text = <<>> THEN <<>>
    ELSE IF Disallowed(Head(text)) THEN SubDisallowedDeleted(Tail(text))
    ELSE <<Head(text)>> \o SubDisallowedDeleted(Tail(text))

\* re.sub(r'[^...]+', ' ', text): every maximal run of disallowed characters
\* becomes one space.
RECURSIVE SubDisallowed(_)
SubDisallowed(text) ==
    IF text = <<>> THEN <<>>
    ELSE IF Disallowed(Head(text)) THEN <<SP>> \o SubDisallowed(SkipDisallowed(text))
    ELSE <<Head(text)>> \o SubDisallowed(Tail(text))

\* The whitespace substitution with '' as its replacement.
SubWhitespaceDeleted(text) == SelectSeq(text, LAMBDA c : c \notin Whitespace)

\* re.sub(r'\s+', ' ', text): every maximal run of whitespace becomes one space.
RECURSIVE SubWhitespace(_)
SubWhitespace(text) ==
    IF text = <<>> THEN <<>>
    ELSE IF Head(text) \in Whitespace THEN <<SP>> \o SubWhitespace(LStrip(text))
    ELSE <<Head(text)>> \o SubWhitespace(Tail(text))

\* The two substitutions in the other order.
clean_text_swapped(text) == Strip(SubDisallowed(SubWhitespace(text)))

clean_text(text) == Strip(SubWhitespace(SubDisallowed(text)))

\* Characters of the texts handed to clean_text: a Devanagari letter, an
\* allowed punctuation mark, an ASCII letter, digit and full stop, a space
\* and a tab.
TextChars == {"ka", ",", "a", "1", ".", SP, TAB}
Texts == UNION {[1..n -> TextChars] : n \in 0..MaxTextLen}

\* Titles the random-page call can return: an ordinary title and one that
\* carries a parenthesis.  T2 is a title of an earlier run that the call no
\* longer returns.
T1 == <<"ka">>
T2 == <<"ga">>
TP == <<"ka", SP, "(", "ga", ")">>
Titles == {T1, TP}

\* Results of wikipedia.random(pages=BATCH_SIZE): lists of 1..BATCH_SIZE
\* titles, repetitions allowed.
Batches == UNION {[1..n -> Titles] : n \in 1..BATCH_SIZE}

\* Cleaned word counts of fetched pages, on both sides of the gate.
WordCounts == {MinWords, MinWords + 1}

\* Seen-titles files the harvest starts from (lines without their newline).
StartFiles == { <<T1, TP>>, <<T2, TP>> }

\* Lines of the files read by the loader specification.
FileLines == { <<>>, <<SP>>, T1, <<SP, "ka", SP>>, T2, TP, <<"ma", "da", "ta">> }
LoadFiles == UNION {[1..n -> FileLines] : n \in 0..MaxFileLines}

VARIABLES
    main_pc,                    \* position of the main thread
    file_exists, file_lines,    \* SEEN_TITLES_FILE
    corpus,                     \* records appended to DRIVE_FILE_PATH by this process
    seen_titles, total_articles_written, consecutive_empty_batches,
    lock,                       \* set of the threads holding the lock (at most one)
    pc, titles_batch, new_titles, attempt, idx,
    articles_written_in_batch, word_count,
    mon_pc,                     \* position of the monitor thread
    calls,                      \* history: random-page calls issued in the iteration
    reset_in_iter,              \* history: the iteration set the counter to 0
    empty_run,                  \* history: consecutive completed batches without a write
    claimed,                    \* history: times each title was claimed as new
    appended,                   \* history: lines of each title appended to the seen file
    clean_pc, clean_in, clean_out, clean_again   \* a call of clean_text and a second one

shared == <<seen_titles, total_articles_written, consecutive_empty_batches, lock>>
files == <<file_exists, file_lines, corpus>>
locals == <<pc, titles_batch, new_titles, attempt, idx,
            articles_written_in_batch, word_count>>
monitor_vars == <<mon_pc>>
history == <<calls, reset_in_iter, empty_run>>
ledger == <<claimed, appended>>
cleaner == <<clean_pc, clean_in, clean_out, clean_again>>
vars == <<main_pc, files, shared, locals, monitor_vars, history, ledger, cleaner>>

InitWith(exists, lines) ==
    /\ main_pc = "load"
    /\ file_exists = exists
    /\ file_lines = lines
    /\ corpus = <<>>
    /\ seen_titles = {}
    /\ total_articles_written = 0
    /\ consecutive_empty_batches = 0
    /\ lock = {}
    /\ pc = [w \in Workers |-> "NotStarted"]
    /\ titles_batch = [w \in Workers |-> <<>>]
    /\ new_titles = [w \in Workers |-> <<>>]
    /\ attempt = [w \in Workers |-> 0]
    /\ idx = [w \in Workers |-> 0]
    /\ articles_written_in_batch = [w \in Workers |-> 0]
    /\ word_count = [w \in Workers |-> 0]
    /\ mon_pc = "NotStarted"
    /\ calls = [w \in Workers |-> 0]
    /\ reset_in_iter = [w \in Workers |-> FALSE]
    /\ empty_run = 0
    /\ claimed = [t \in Titles |-> 0]
    /\ appended = [t \in Titles |-> 0]

\* No call of clean_text under way.
CleanerIdle ==
    /\ clean_pc = "idle"
    /\ clean_in = <<>>
    /\ clean_out = <<>>
    /\ clean_again = <<>>

Init ==
    /\ CleanerIdle
    /\ \/ InitWith(FALSE, <<>>)
       \/ \E lines \in StartFiles : InitWith(TRUE, lines)

\* ------------------------------------------------------------ main thread
\* for line in f: title = line.strip(); if title: seen_titles.add(title)
RECURSIVE ReadTitles(_, _)
ReadTitles(lines, acc) ==
    IF lines = <<>> THEN acc
    ELSE LET title == Strip(Head(lines))
         IN  ReadTitles(Tail(lines), IF title # <<>> THEN acc \cup {title} ELSE acc)

\* filtered_titles = [t for t in seen_titles if not any(patt in t ...)]
FilterTitles(titles) == {t \in titles : ~IsInvalid(t)}

\* Mutant of Load: counts the titles read instead of the titles kept.
LoadCountsUnfiltered ==
    /\ main_pc = "load"
    /\ main_pc' = "start"
    /\ IF file_exists
       THEN /\ seen_titles' = FilterTitles(ReadTitles(file_lines, {}))
            /\ total_articles_written' = Cardinality(ReadTitles(file_lines, {}))
       ELSE UNCHANGED <<seen_titles, total_articles_written>>
    /\ UNCHANGED <<files, consecutive_empty_batches, lock, locals, monitor_vars, history>>
    /\ UNCHANGED <<ledger, cleaner>>

\* Lines 37-64: the load of the seen titles.
Load ==
    /\ main_pc = "load"
    /\ main_pc' = "start"
    /\ IF file_exists
       THEN /\ seen_titles' = FilterTitles(ReadTitles(file_lines, {}))
            /\ total_articles_written' = Cardinality(seen_titles')
       ELSE UNCHANGED <<seen_titles, total_articles_written>>
    /\ UNCHANGED <<files, consecutive_empty_batches, lock, locals, monitor_vars, history>>
    /\ UNCHANGED <<ledger, cleaner>>

Header(existing) == [kind |-> "header", title |-> <<>>, words |-> existing]
Article(title, words) == [kind |-> "article", title |-> title, words |-> words]

\* Lines 214-234: the session header, then the monitor and the workers start.
StartSession ==
    /\ main_pc = "start"
    /\ main_pc' = "join"
    /\ corpus' = Append(corpus, Header(total_articles_written))
    /\ mon_pc' = "MonCheck"
    /\ pc' = [w \in Workers |-> "CheckStop"]
    /\ UNCHANGED <<file_exists, file_lines, shared, titles_batch, new_titles, attempt,
                   idx, articles_written_in_batch, word_count, history>>
    /\ UNCHANGED <<ledger, cleaner>>

Stopped(w) == pc[w] \in {"StoppedTargetReached", "StoppedNoNewArticles"}

\* Lines 236-247: join every worker, then the final report.
FinalReport ==
    /\ main_pc = "join"
    /\ \A w \in Workers : Stopped(w)
    /\ main_pc' = "done"
    /\ UNCHANGED <<files, shared, locals, monitor_vars, history>>
    /\ UNCHANGED <<ledger, cleaner>>

\* ---------------------------------------------------------------- worker
\* Mutant of TargetReached: the comparison is strict.
TargetExceeded == total_articles_written > NUM_ARTICLES

\* total_articles_written >= NUM_ARTICLES (lines 79, 134, 180)
TargetReached == total_articles_written >= NUM_ARTICLES

\* Mutant of NoNewArticles: the threshold is taken as met one batch early.
NoNewArticlesOffByOne == consecutive_empty_batches + 1 >= CONSECUTIVE_EMPTY_THRESHOLD

\* consecutive_empty_batches >= CONSECUTIVE_EMPTY_THRESHOLD (lines 82, 183)
NoNewArticles == consecutive_empty_batches >= CONSECUTIVE_EMPTY_THRESHOLD

\* Mutant of RetriesLeft: one attempt too many.
RetriesLeftOffByOne(a) == a <= MAX_RETRIES

\* for attempt in range(1, MAX_RETRIES + 1): another attempt follows this one
RetriesLeft(a) == a < MAX_RETRIES

\* Mutant of TooShort: a page of exactly MinWords words passes.
TooShortStrict(wc) == wc < MinWords

\* if word_count <= 50
TooShort(wc) == wc <= MinWords

Min(a, b) == IF a < b THEN a ELSE b

\* Number of positions of the list q that hold t.
Occurrences(t, q) == Cardinality({i \in DOMAIN q : q[i] = t})

\* Mutant of DedupFrom: a new title is claimed but not added to the seen set.
RECURSIVE DedupFromNoInsert(_, _, _, _)
DedupFromNoInsert(batch, i, seen, new) ==
    IF i > Len(batch) THEN [seen |-> seen, new |-> new]
    ELSE IF batch[i] \notin seen
         THEN DedupFromNoInsert(batch, i + 1, seen, Append(new, batch[i]))
         ELSE DedupFromNoInsert(batch, i + 1, seen, new)

\* Mutant of DedupFrom: every title is tested against the set as it was
\* before the pass, and the new titles are added after it.
DedupFromBulk(batch, i, seen, new) ==
    LET found == SelectSeq(batch, LAMBDA t : t \notin seen)
    IN  [seen |-> seen \cup {found[k] : k \in DOMAIN found}, new |-> found]

\* Lines 108-111: the pass over titles_batch, from position i on.
RECURSIVE DedupFrom(_, _, _, _)
DedupFrom(batch, i, seen, new) ==
    IF i > Len(batch) THEN [seen |-> seen, new |-> new]
    ELSE IF batch[i] \notin seen
         THEN DedupFrom(batch, i + 1, seen \cup {batch[i]}, Append(new, batch[i]))
         ELSE DedupFrom(batch, i + 1, seen, new)

\* Lines 76-87: the stop check under the lock, then the start of an iteration.
CheckStop(w) ==
    /\ pc[w] = "CheckStop"
    /\ lock = {}
    /\ IF TargetReached
       THEN /\ pc' = [pc EXCEPT ![w] = "StoppedTargetReached"]
            /\ UNCHANGED attempt
       ELSE IF NoNewArticles
       THEN /\ pc' = [pc EXCEPT ![w] = "StoppedNoNewArticles"]
            /\ UNCHANGED attempt
       ELSE /\ pc' = [pc EXCEPT ![w] = "SampleBatch"]
            /\ attempt' = [attempt EXCEPT ![w] = 1]
    /\ UNCHANGED <<main_pc, files, shared, titles_batch, new_titles, idx,
                   articles_written_in_batch, word_count, monitor_vars, history>>
    /\ UNCHANGED <<ledger, cleaner>>

\* Lines 88-99: one attempt of wikipedia.random.
SampleBatch(w) ==
    /\ pc[w] = "SampleBatch"
    /\ \/ \E b \in Batches :             \* the call returns: break
            /\ titles_batch' = [titles_batch EXCEPT ![w] = b]
            /\ pc' = [pc EXCEPT ![w] = "Dedup"]
            /\ attempt' = [attempt EXCEPT ![w] = 0]
            /\ calls' = [calls EXCEPT ![w] = 0]
       \/ /\ UNCHANGED titles_batch      \* "HTTP" or "timed out": sleep, next attempt
          /\ calls' = [calls EXCEPT ![w] = @ + 1]
          /\ IF RetriesLeft(attempt[w])
             THEN /\ attempt' = [attempt EXCEPT ![w] = @ + 1]
                  /\ UNCHANGED pc
             ELSE /\ pc' = [pc EXCEPT ![w] = "Cooldown"]
                  /\ UNCHANGED attempt
       \/ /\ pc' = [pc EXCEPT ![w] = "Dedup"]   \* any other error: break
          /\ attempt' = [attempt EXCEPT ![w] = 0]
          /\ calls' = [calls EXCEPT ![w] = 0]
          /\ UNCHANGED titles_batch
    /\ UNCHANGED <<main_pc, files, shared, new_titles, idx, articles_written_in_batch,
                   word_count, monitor_vars, reset_in_iter, empty_run>>
    /\ UNCHANGED <<ledger, cleaner>>

\* Mutant of Cooldown: the worker returns when the attempts are used up.
CooldownGivesUp(w) ==
    /\ pc[w] = "Cooldown"
    /\ pc' = [pc EXCEPT ![w] = "StoppedNoNewArticles"]
    /\ attempt' = [attempt EXCEPT ![w] = 0]
    /\ calls' = [calls EXCEPT ![w] = 0]
    /\ UNCHANGED <<main_pc, files, shared, titles_batch, new_titles, idx,
                   articles_written_in_batch, word_count, monitor_vars, reset_in_iter,
                   empty_run>>
    /\ UNCHANGED <<ledger, cleaner>>

\* Lines 100-103: the loop ran out of attempts: sleep 30 s, continue.
Cooldown(w) ==
    /\ pc[w] = "Cooldown"
    /\ pc' = [pc EXCEPT ![w] = "CheckStop"]
    /\ attempt' = [attempt EXCEPT ![w] = 0]
    /\ calls' = [calls EXCEPT ![w] = 0]
    /\ UNCHANGED <<main_pc, files, shared, titles_batch, new_titles, idx,
                   articles_written_in_batch, word_count, monitor_vars, reset_in_iter,
                   empty_run>>
    /\ UNCHANGED <<ledger, cleaner>>

\* Lines 106-118: under the lock, claim the titles not seen yet.
Dedup(w) ==
    /\ pc[w] = "Dedup"
    /\ lock = {}
    /\ LET r == DedupFrom(titles_batch[w], 1, seen_titles, <<>>)
       IN  /\ seen_titles' = r.seen
           /\ new_titles' = [new_titles EXCEPT ![w] = r.new]
           /\ claimed' = [t \in Titles |-> claimed[t] + Occurrences(t, r.new)]
           /\ IF r.new = <<>>
              THEN /\ consecutive_empty_batches' = consecutive_empty_batches + 1
                   /\ empty_run' = Min(empty_run + 1, CONSECUTIVE_EMPTY_THRESHOLD)
                   /\ pc' = [pc EXCEPT ![w] = "CheckStop"]
                   /\ UNCHANGED <<lock, reset_in_iter>>
              ELSE /\ consecutive_empty_batches' = 0
                   /\ reset_in_iter' = [reset_in_iter EXCEPT ![w] = TRUE]
                   /\ lock' = {w}
                   /\ pc' = [pc EXCEPT ![w] = "PersistNewIds"]
                   /\ UNCHANGED empty_run
    /\ titles_batch' = [titles_batch EXCEPT ![w] = <<>>]
    /\ UNCHANGED <<main_pc, files, total_articles_written, attempt, idx,
                   articles_written_in_batch, word_count, monitor_vars, calls>>
    /\ UNCHANGED <<appended, cleaner>>

\* Lines 120-131: still under the lock, append the new titles to the seen file.
PersistNewIds(w) ==
    /\ pc[w] = "PersistNewIds"
    /\ lock = {w}
    /\ \/ /\ file_lines' = file_lines \o new_titles[w]
          /\ file_exists' = TRUE
          /\ appended' = [t \in Titles |-> appended[t] + Occurrences(t, new_titles[w])]
       \/ \E k \in 0..(Len(new_titles[w]) - 1) :   \* an exception after k lines
            /\ file_lines' = file_lines \o SubSeq(new_titles[w], 1, k)
            /\ file_exists' = (file_exists \/ k > 0)
            /\ appended' = [t \in Titles |->
                                appended[t] + Occurrences(t, SubSeq(new_titles[w], 1, k))]
    /\ lock' = {}
    /\ pc' = [pc EXCEPT ![w] = "FetchLoop"]
    /\ idx' = [idx EXCEPT ![w] = 1]
    /\ UNCHANGED <<main_pc, corpus, seen_titles, total_articles_written,
                   consecutive_empty_batches, titles_batch, new_titles, attempt,
                   articles_written_in_batch, word_count, monitor_vars, history>>
    /\ UNCHANGED <<claimed, cleaner>>

\* Lines 132-135: the head of the loop over new_titles, with its target check
\* under the lock.
FetchLoop(w) ==
    /\ pc[w] = "FetchLoop"
    /\ IF idx[w] > Len(new_titles[w])
       THEN pc' = [pc EXCEPT ![w] = "Tally"]
       ELSE /\ lock = {}
            /\ pc' = [pc EXCEPT ![w] = IF TargetReached THEN "Tally" ELSE "Fetch"]
    /\ word_count' = [word_count EXCEPT ![w] = 0]
    /\ UNCHANGED <<main_pc, files, shared, titles_batch, new_titles, attempt, idx,
                   articles_written_in_batch, monitor_vars, history>>
    /\ UNCHANGED <<ledger, cleaner>>

\* Lines 137-151 and 159-164: fetch the page, clean it, count its words and
\* append it to the corpus unless it is short; every exception skips the title.
Fetch(w) ==
    /\ pc[w] = "Fetch"
    /\ \/ /\ pc' = [pc EXCEPT ![w] = "FetchLoop"]      \* wikipedia.page raises
          /\ idx' = [idx EXCEPT ![w] = @ + 1]
          /\ UNCHANGED <<corpus, word_count>>
       \/ \E wc \in WordCounts :
            /\ word_count' = [word_count EXCEPT ![w] = wc]
            /\ IF TooShort(wc)
               THEN /\ pc' = [pc EXCEPT ![w] = "FetchLoop"]
                    /\ idx' = [idx EXCEPT ![w] = @ + 1]
                    /\ UNCHANGED corpus
               ELSE \/ /\ corpus' = Append(corpus, Article(new_titles[w][idx[w]], wc))
                       /\ pc' = [pc EXCEPT ![w] = "UpdateCount"]
                       /\ UNCHANGED idx
                    \/ /\ pc' = [pc EXCEPT ![w] = "FetchLoop"]   \* the append raises
                       /\ idx' = [idx EXCEPT ![w] = @ + 1]
                       /\ UNCHANGED corpus
    /\ UNCHANGED <<main_pc, file_exists, file_lines, shared, titles_batch, new_titles,
                   attempt, articles_written_in_batch, monitor_vars, history>>
    /\ UNCHANGED <<ledger, cleaner>>

\* Mutant of UpdateCount: the increment of the total is lost.
UpdateCountLost(w) ==
    /\ pc[w] = "UpdateCount"
    /\ lock = {}
    /\ articles_written_in_batch' = [articles_written_in_batch EXCEPT ![w] = @ + 1]
    /\ idx' = [idx EXCEPT ![w] = @ + 1]
    /\ pc' = [pc EXCEPT ![w] = "FetchLoop"]
    /\ word_count' = [word_count EXCEPT ![w] = 0]
    /\ UNCHANGED <<main_pc, files, shared, titles_batch, new_titles, attempt,
                   monitor_vars, history>>
    /\ UNCHANGED <<ledger, cleaner>>

\* Lines 153-157: count the article under the lock.
UpdateCount(w) ==
    /\ pc[w] = "UpdateCount"
    /\ lock = {}
    /\ total_articles_written' = total_articles_written + 1
    /\ articles_written_in_batch' = [articles_written_in_batch EXCEPT ![w] = @ + 1]
    /\ idx' = [idx EXCEPT ![w] = @ + 1]
    /\ pc' = [pc EXCEPT ![w] = "FetchLoop"]
    /\ word_count' = [word_count EXCEPT ![w] = 0]
    /\ UNCHANGED <<main_pc, files, seen_titles, consecutive_empty_batches, lock,
                   titles_batch, new_titles, attempt, monitor_vars, history>>
    /\ UNCHANGED <<ledger, cleaner>>

\* Lines 166-170: after the loop, count a batch that wrote no article.
Tally(w) ==
    /\ pc[w] = "Tally"
    /\ IF articles_written_in_batch[w] = 0
       THEN /\ lock = {}
            /\ consecutive_empty_batches' = consecutive_empty_batches + 1
            /\ empty_run' = Min(empty_run + 1, CONSECUTIVE_EMPTY_THRESHOLD)
       ELSE /\ empty_run' = 0
            /\ UNCHANGED consecutive_empty_batches
    /\ pc' = [pc EXCEPT ![w] = "CheckStop"]
    /\ new_titles' = [new_titles EXCEPT ![w] = <<>>]
    /\ idx' = [idx EXCEPT ![w] = 0]
    /\ articles_written_in_batch' = [articles_written_in_batch EXCEPT ![w] = 0]
    /\ reset_in_iter' = [reset_in_iter EXCEPT ![w] = FALSE]
    /\ UNCHANGED <<main_pc, files, seen_titles, total_articles_written, lock,
                   titles_batch, attempt, word_count, monitor_vars, calls>>
    /\ UNCHANGED <<ledger, cleaner>>

Worker(w) ==
    \/ CheckStop(w)
    \/ SampleBatch(w)
    \/ Cooldown(w)
    \/ Dedup(w)
    \/ PersistNewIds(w)
    \/ FetchLoop(w)
    \/ Fetch(w)
    \/ UpdateCount(w)
    \/ Tally(w)

\* --------------------------------------------------------------- monitor
\* Lines 178-186: the monitor's stop check and snapshot under the lock.
MonCheck ==
    /\ mon_pc = "MonCheck"
    /\ lock = {}
    /\ mon_pc' = IF TargetReached \/ NoNewArticles THEN "MonStopped" ELSE "MonReport"
    /\ UNCHANGED <<main_pc, files, shared, locals, history>>
    /\ UNCHANGED <<ledger, cleaner>>

\* Mutant of MonReport: the monitor ends when the report fails.
MonReportEnds ==
    /\ mon_pc = "MonReport"
    /\ mon_pc' = "MonStopped"
    /\ UNCHANGED <<main_pc, files, shared, locals, history>>
    /\ UNCHANGED <<ledger, cleaner>>

\* Lines 188-211: size the corpus file and report, or log the error; sleep.
MonReport ==
    /\ mon_pc = "MonReport"
    /\ mon_pc' = "MonCheck"
    /\ UNCHANGED <<main_pc, files, shared, locals, history>>
    /\ UNCHANGED <<ledger, cleaner>>

Monitor == MonCheck \/ MonReport

Main == Load \/ StartSession \/ FinalReport

Next == Main \/ Monitor \/ \E w \in Workers : Worker(w)

Spec == Init /\ [][Next]_vars

\* Every thread that can take a step is eventually scheduled; what the calls to
\* the source return stays free.
FairSpec ==
    /\ Spec
    /\ WF_vars(Main)
    /\ WF_vars(Monitor)
    /\ \A w \in Workers : WF_vars(Worker(w))

\* The loader alone, over every seen-titles file of up to MaxFileLines lines.
InitLoad ==
    /\ CleanerIdle
    /\ \/ InitWith(FALSE, <<>>)
       \/ \E lines \in LoadFiles : InitWith(TRUE, lines)

SpecLoad == InitLoad /\ [][Load]_vars

\* ----------------------------------------------------------------- cleaner
\* clean_text on its own: a call on any text, then a call on its result.
InitClean ==
    /\ InitWith(FALSE, <<>>)
    /\ clean_pc = "call"
    /\ clean_in \in Texts
    /\ clean_out = <<>>
    /\ clean_again = <<>>

CleanCall ==
    /\ clean_pc = "call"
    /\ clean_out' = clean_text(clean_in)
    /\ clean_pc' = "cleaned"
    /\ UNCHANGED <<clean_in, clean_again>>
    /\ UNCHANGED <<main_pc, files, shared, locals, monitor_vars, history, ledger>>

CleanAgain ==
    /\ clean_pc = "cleaned"
    /\ clean_again' = clean_text(clean_out)
    /\ clean_pc' = "recleaned"
    /\ UNCHANGED <<clean_in, clean_out>>
    /\ UNCHANGED <<main_pc, files, shared, locals, monitor_vars, history, ledger>>

CleanNext == CleanCall \/ CleanAgain
SpecClean == InitClean /\ [][CleanNext]_vars

\* ================================================================ claims
ArticleAt(i) == corpus[i].kind = "article"
NumArticles == Cardinality({i \in DOMAIN corpus : ArticleAt(i)})
AllWorkersStopped == \A w \in Workers : Stopped(w)
AllTerminated == AllWorkersStopped /\ mon_pc = "MonStopped"
Started == main_pc \in {"join", "done"}

\* C1: no title has its content appended to the corpus more than once by this
\* process, whatever the workers sample.
C1_WrittenAtMostOnce ==
    \A i, j \in DOMAIN corpus :
        (ArticleAt(i) /\ ArticleAt(j) /\ corpus[i].title = corpus[j].title) => i = j

\* C1 witness: a title already in the corpus sits in a batch that another
\* iteration sampled and is about to deduplicate, next to a repetition.
C1_Witness ==
    \E w \in Workers, i \in DOMAIN corpus :
        /\ pc[w] = "Dedup"
        /\ ArticleAt(i)
        /\ Len(titles_batch[w]) = 2
        /\ titles_batch[w][1] = corpus[i].title
        /\ titles_batch[w][2] = corpus[i].title

\* C2: after a run that started from a seen file without duplicate lines, no
\* title is on more than one line of the seen file.
C2_NoDuplicateSeenLine ==
    main_pc = "done" =>
        \A i, j \in DOMAIN file_lines : file_lines[i] = file_lines[j] => i = j

\* C3: once total_articles_written >= NUM_ARTICLES, every worker and the
\* monitor eventually reach a terminated state (fair scheduling, every call
\* returns).
C3_TargetStopsAll == (total_articles_written >= NUM_ARTICLES) ~> AllTerminated

\* C3 witness: all threads have terminated with the target reached, a worker
\* having stopped for that reason.
C3_Witness ==
    /\ AllTerminated
    /\ total_articles_written >= NUM_ARTICLES
    /\ NumArticles > 0
    /\ \E w \in Workers : pc[w] = "StoppedTargetReached"

\* C4: once total_articles_written has reached NUM_ARTICLES, no worker appends
\* another article to the corpus.
C4_NoWriteAfterTarget ==
    [][(Started /\ total_articles_written >= NUM_ARTICLES) => corpus' = corpus]_vars

\* C5: whenever CONSECUTIVE_EMPTY_THRESHOLD consecutive completed batches wrote
\* no article, all workers and the monitor eventually terminate, and at
\* termination total_articles_written is the count after the last accepted
\* write.
C5_EmptyRunStopsAll ==
    /\ (empty_run >= CONSECUTIVE_EMPTY_THRESHOLD) ~> AllTerminated
    /\ [](AllTerminated => total_articles_written = corpus[1].words + NumArticles)

\* C6: an iteration sets consecutive_empty_batches to 0 if and only if it wrote
\* at least one article; at the end of its loop over new_titles the two agree.
C6_ResetIffWritten ==
    \A w \in Workers :
        pc[w] = "Tally" => (reset_in_iter[w] <=> articles_written_in_batch[w] > 0)

PendingCounts == Cardinality({w \in Workers : pc[w] = "UpdateCount"})

\* C7: total_articles_written never decreases; a step of a worker or of the
\* monitor leaves it alone or adds exactly 1, and it adds 1 exactly when a
\* worker counts the article it has just appended, so that the total is the
\* count at the start plus the articles appended and counted.
C7_TotalMonotone ==
    /\ [](Started => total_articles_written + PendingCounts
                        = corpus[1].words + NumArticles)
    /\ [][/\ total_articles_written' >= total_articles_written
          /\ Started =>
                \/ total_articles_written' = total_articles_written
                \/ /\ total_articles_written' = total_articles_written + 1
                   /\ \E w \in Workers :
                        /\ pc[w] = "UpdateCount"
                        /\ pc'[w] # "UpdateCount"
                        /\ corpus' = corpus]_vars

\* C7 witness: the total has grown by the articles written in this run.
C7_Witness ==
    /\ Started
    /\ NumArticles >= 2
    /\ PendingCounts = 0
    /\ total_articles_written = corpus[1].words + NumArticles

\* C8: the retry loop of one iteration issues at most MAX_RETRIES calls of the
\* random-page source; after MAX_RETRIES transient failures the worker takes the
\* cooldown with no batch in hand and goes back to CheckStop, the shared state
\* and the files untouched.
C8_RetryBound ==
    /\ [](\A w \in Workers :
            /\ pc[w] = "SampleBatch" => calls[w] < MAX_RETRIES
            /\ pc[w] = "Cooldown" =>
                    /\ calls[w] = MAX_RETRIES
                    /\ titles_batch[w] = <<>>
                    /\ new_titles[w] = <<>>)
    /\ [][\A w \in Workers :
            (pc[w] = "Cooldown" /\ pc'[w] # "Cooldown") =>
                /\ pc'[w] = "CheckStop"
                /\ UNCHANGED <<shared, files>>]_vars

\* C8 witness: a worker in the cooldown after MAX_RETRIES failed calls.
C8_Witness == \E w \in Workers : pc[w] = "Cooldown" /\ calls[w] = MAX_RETRIES

\* C9: a fetched page whose cleaned text has MinWords words or fewer is neither
\* appended to the corpus nor counted; only pages of more than MinWords words
\* are appended and counted.
C9_WordCountGate ==
    /\ [](\A i \in DOMAIN corpus : ArticleAt(i) => corpus[i].words > MinWords)
    /\ [](\A w \in Workers : pc[w] = "UpdateCount" => word_count[w] > MinWords)
    /\ [][\A w \in Workers :
            (pc[w] = "Fetch" /\ pc'[w] # "Fetch" /\ word_count'[w] <= MinWords) =>
                /\ corpus' = corpus
                /\ total_articles_written' = total_articles_written
                /\ articles_written_in_batch' = articles_written_in_batch
                /\ pc'[w] = "FetchLoop"]_vars

\* C9 witness: a worker has just skipped a page of exactly MinWords words, and
\* the corpus holds no article of that title.
C9_Witness ==
    \E w \in Workers :
        /\ pc[w] = "FetchLoop"
        /\ word_count[w] = MinWords
        /\ idx[w] > 1
        /\ \A i \in DOMAIN corpus : corpus[i].title # new_titles[w][idx[w] - 1]
        /\ NumArticles > 0

\* The titles the seen file holds: its lines without the whitespace around
\* them, the blank ones and those containing an invalid-page marker left out.
PersistedValidTitles ==
    IF file_exists
    THEN {t \in {Strip(file_lines[i]) : i \in DOMAIN file_lines} :
            /\ t # <<>>
            /\ \A k \in DOMAIN invalid_patterns : ~PattIn(invalid_patterns[k], t)}
    ELSE {}

\* C10: after the load, seen_titles holds exactly the non-blank persisted titles
\* without an invalid-page marker, total_articles_written is the size of that
\* set (0 without a seen file) and consecutive_empty_batches is 0.
C10_LoadResult ==
    main_pc = "start" =>
        /\ seen_titles = PersistedValidTitles
        /\ total_articles_written = Cardinality(PersistedValidTitles)
        /\ ~file_exists => total_articles_written = 0
        /\ consecutive_empty_batches = 0

\* C10 witness: a file with a blank line, a line with a parenthesis and a padded
\* title has been loaded as one valid title.
C10_Witness ==
    /\ main_pc = "start"
    /\ file_exists
    /\ file_lines = << <<SP>>, TP, <<SP, "ka", SP>> >>
    /\ seen_titles = {T1}
    /\ total_articles_written = 1

\* ------------------------------------------------------- clean_text claims
\* C11: clean_text is idempotent: cleaning the result of clean_text again
\* gives the same text.
C11_CleanIdempotent == clean_pc = "recleaned" => clean_again = clean_out

\* A text that the first call changed and did not empty was cleaned twice.
C11_Witness ==
    /\ clean_pc = "recleaned"
    /\ clean_out # clean_in
    /\ clean_out # <<>>
    /\ \E i \in DOMAIN clean_in : Disallowed(clean_in[i])

\* An allowed character that is not whitespace.
Kept(c) == ~Disallowed(c) /\ c \notin Whitespace

\* x has only allowed non-whitespace characters and spaces, no two spaces
\* next to each other.
AllowedWithSingleSpaces(x) ==
    /\ \A i \in DOMAIN x : x[i] = SP \/ Kept(x[i])
    /\ \A i \in 1..(Len(x) - 1) : ~(x[i] = SP /\ x[i + 1] = SP)

NoOuterSpace(x) == x # <<>> => (x[1] # SP /\ x[Len(x)] # SP)

\* C12 as stated: a text of allowed characters with single spaces is
\* returned as it is.
C12_AllowedSingleSpacesFixed ==
    (clean_pc # "call" /\ AllowedWithSingleSpaces(clean_in)) => clean_out = clean_in

\* C12: a text of allowed non-whitespace characters separated by single
\* spaces, with no space at its start or end, is returned as it is.
C12_CleanFormFixed ==
    (clean_pc # "call" /\ AllowedWithSingleSpaces(clean_in) /\ NoOuterSpace(clean_in))
        => clean_out = clean_in

\* A text of two words joined by one space was cleaned.
C12_Witness ==
    /\ clean_pc = "cleaned"
    /\ Len(clean_in) >= 3
    /\ AllowedWithSingleSpaces(clean_in)
    /\ NoOuterSpace(clean_in)
    /\ \E i \in DOMAIN clean_in : clean_in[i] = SP
    /\ \E i \in DOMAIN clean_in : clean_in[i] = ","

\* Length of the longest prefix of s made of kept characters.
KeptPrefixLen(s) ==
    CHOOSE n \in 0..Len(s) :
        /\ \A i \in 1..n : Kept(s[i])
        /\ n < Len(s) => ~Kept(s[n + 1])

\* The maximal runs of kept characters of s, in order.
RECURSIVE RunsOfKept(_)
RunsOfKept(s) ==
    IF s = <<>> THEN <<>>
    ELSE IF ~Kept(Head(s)) THEN RunsOfKept(Tail(s))
    ELSE LET n == KeptPrefixLen(s)
         IN  <<SubSeq(s, 1, n)>> \o RunsOfKept(SubSeq(s, n + 1, Len(s)))

\* C13: the result of clean_text has only allowed non-whitespace characters
\* and spaces, no two whitespace characters next to each other and none at
\* its start or end; it keeps the allowed non-whitespace characters of the
\* input in order, and characters that a run of disallowed characters (or
\* whitespace) parted in the input are parted by a space in the result.
C13_CleanResult ==
    clean_pc # "call" =>
        /\ AllowedWithSingleSpaces(clean_out)
        /\ \A i \in 1..(Len(clean_out) - 1) :
              ~(clean_out[i] \in Whitespace /\ clean_out[i + 1] \in Whitespace)
        /\ clean_out # <<>> =>
              (clean_out[1] \notin Whitespace /\ clean_out[Len(clean_out)] \notin Whitespace)
        /\ SelectSeq(clean_out, Kept) = SelectSeq(clean_in, Kept)
        /\ RunsOfKept(clean_out) = RunsOfKept(clean_in)

\* Two letters parted only by a run of two disallowed characters were cleaned.
C13_Witness ==
    /\ clean_pc = "cleaned"
    /\ clean_in = <<"ka", "a", ".", "ka">>
    /\ clean_out = <<"ka", SP, "ka">>

\* --------------------------------------------------- harvest claims, part 2
\* C14: with total_articles_written at or below NUM_ARTICLES after the load,
\* the workers never take it past NUM_ARTICLES.
C14_NoOvershoot ==
    (Started /\ corpus[1].words <= NUM_ARTICLES) => total_articles_written <= NUM_ARTICLES

\* C15: the claim of the new titles and their append to the seen file are one
\* critical section: a title is claimed as new at most once over all workers
\* and appended to the seen file at most once by this process, and
\* seen_titles never loses an element.
C15_ClaimedOnce ==
    /\ [](\A t \in Titles : claimed[t] <= 1 /\ appended[t] <= claimed[t])
    /\ [](\A w \in Workers : pc[w] = "PersistNewIds" => lock = {w})
    /\ [][seen_titles \subseteq seen_titles']_vars

\* Both workers sampled the new title T1 and dedup ran for both; one of them
\* claimed it and appended it.
C15_Witness ==
    /\ claimed[T1] = 1
    /\ appended[T1] = 1
    /\ \E w \in Workers : pc[w] = "FetchLoop" /\ new_titles[w] = <<T1>>
    /\ \E w \in Workers : pc[w] = "CheckStop" /\ consecutive_empty_batches > 0

\* C16: after an error of wikipedia.random that is not transient (the worker
\* leaves the retry loop with titles_batch empty) the worker goes back to its
\* stop check with seen_titles, total_articles_written and
\* consecutive_empty_batches as they were.
C16_CriticalErrorSkipsBatch ==
    [][\A w \in Workers :
          (pc[w] = "Dedup" /\ titles_batch[w] = <<>> /\ pc'[w] # "Dedup")
              => /\ pc'[w] = "CheckStop"
                 /\ UNCHANGED <<seen_titles, total_articles_written,
                                consecutive_empty_batches>>]_vars

\* C17: a worker terminates only at its stop check, with the lock free and
\* one of the two stop conditions true; no error terminates it, and after
\* the append to the seen file, failed or not, the worker goes on to fetch
\* with every claimed title in seen_titles.
C17_StopsOnlyAtCheck ==
    [][\A w \in Workers :
          /\ (~Stopped(w) /\ pc'[w] \in {"StoppedTargetReached", "StoppedNoNewArticles"})
                => /\ pc[w] = "CheckStop"
                   /\ lock = {}
                   /\ \/ total_articles_written >= NUM_ARTICLES
                      \/ consecutive_empty_batches >= CONSECUTIVE_EMPTY_THRESHOLD
          /\ (pc[w] = "PersistNewIds" /\ pc'[w] # "PersistNewIds")
                => /\ pc'[w] = "FetchLoop"
                   /\ \A i \in DOMAIN new_titles[w] : new_titles[w][i] \in seen_titles']_vars

\* Every worker has stopped after a run in which a claimed title stayed in
\* seen_titles although its append to the seen file failed.
C17_Witness ==
    /\ AllWorkersStopped
    /\ \E t \in Titles : claimed[t] = 1 /\ appended[t] = 0 /\ t \in seen_titles

\* C18: a step of the monitor leaves seen_titles, total_articles_written,
\* consecutive_empty_batches, the corpus and the seen file as they are; the
\* monitor terminates only at its check, with one of the two stop conditions
\* true, and not when a report fails.
C18_MonitorReadOnly ==
    [][(mon_pc # "NotStarted" /\ mon_pc' # mon_pc)
          => /\ UNCHANGED <<seen_titles, total_articles_written,
                            consecutive_empty_batches, files>>
             /\ mon_pc' = "MonStopped"
                   => /\ mon_pc = "MonCheck"
                      /\ \/ total_articles_written >= NUM_ARTICLES
                         \/ consecutive_empty_batches >= CONSECUTIVE_EMPTY_THRESHOLD]_vars

\* The monitor has terminated on the empty-batch condition while a worker is
\* still running and an article is in the corpus.
C18_Witness ==
    /\ mon_pc = "MonStopped"
    /\ NumArticles > 0
    /\ total_articles_written < NUM_ARTICLES
    /\ \E w \in Workers : ~Stopped(w)

\* C19: once every worker has terminated, total_articles_written >=
\* NUM_ARTICLES or consecutive_empty_batches >= CONSECUTIVE_EMPTY_THRESHOLD,
\* so the final report says 'No new articles found' only with the threshold
\* met.
C19_FinalStateStopped ==
    AllWorkersStopped =>
        \/ total_articles_written >= NUM_ARTICLES
        \/ consecutive_empty_batches >= CONSECUTIVE_EMPTY_THRESHOLD

\* The final report was made below the target, after a worker that was in
\* flight had reset the counter (an article was written in this run).
C19_Witness ==
    /\ main_pc = "done"
    /\ total_articles_written < NUM_ARTICLES
    /\ NumArticles > 0
    /\ \E w \in Workers : pc[w] = "StoppedNoNewArticles"

\* C20: if a worker terminates because consecutive_empty_batches >=
\* CONSECUTIVE_EMPTY_THRESHOLD, every other worker and the monitor eventually
\* terminate.
C20_ThresholdStopsAll ==
    (\E w \in Workers : pc[w] = "StoppedNoNewArticles") ~> AllTerminated
====
